---- MODULE Spec2Model ----
(***************************************************************************)
(* A model of the CVRP optimization service (backend/optimization-service  *)
(* /app.py): the two HTTP endpoints and the direct optimize() call, the    *)
(* routing model optimize() registers (arc cost, capacity dimension, time  *)
(* dimension and window ranges), the solve, and the extraction of the      *)
(* response.                                                               *)
(*                                                                         *)
(* Locations are 0..n-1; Python lists are sequences, so list[i] is         *)
(* seq[i+1].  Distances are integer metres and windows integer minutes,    *)
(* as the batch endpoint produces them and the docstrings show them, so    *)
(* that int() leaves them as they are; int(dist / 667) is modelled as the  *)
(* truncating division it is.                                              *)
(*                                                                         *)
(* The search itself runs inside the routing library, which is not code of *)
(* the service.  The model takes of it only what optimize() relies on: the *)
(* one call of SolveWithParameters returns no assignment, or an assignment *)
(* that routes every customer and satisfies the dimensions optimize() has  *)
(* registered; any such assignment can be the one returned.                *)
(***************************************************************************)
EXTENDS Integers, Sequences, FiniteSets, TLC

VARIABLES
    req,          \* the request as the caller sent it
    pc,           \* "request" | "solving" | "done"
    outcome,      \* how the handling ended (see Outcomes)
    solve_calls,  \* how often routing.SolveWithParameters was entered
    result,       \* what optimize() / the endpoint returned
    http,         \* the endpoint's status code (0: no endpoint, direct call)
    solution_cache, \* optimizer.solution_cache, the field of the shared instance
    others,       \* the requests other threads of the server handle meanwhile
    circuit_breaker, \* DatabaseConnection.circuit_breaker: state, failure_count, ...
    database,     \* DatabaseConnection: conn, is_fallback_mode, enable_fallback
    connect_call, \* the frame of connect(): position, arguments, what it did
    wrapper_call, \* what the last call through CircuitBreaker.__call__ did
    clock         \* time.time(), in seconds

\* The analytics process: its database handle, its breaker and the time.
db_vars == <<circuit_breaker, database, connect_call, wrapper_call, clock>>

\* The optimization service: the request in hand, its solve, its answer.
service_vars == <<req, pc, outcome, 
                  solve_calls, result, http, solution_cache, others>>

vars == <<req, pc, outcome, 
          solve_calls, result, http, solution_cache, others, db_vars>>

-----------------------------------------------------------------------------
(* Bounds of the model *)

MaxLocations == 3
MaxTimeLimit == 4
MaxRetryAttempts == 3
MaxConnectCalls == 3
MaxClock == 250

(* Constants of the program *)

failure_threshold == 3
reset_timeout == 120

speed_m_per_min == 667
horizon == 480
waiting_slack == 30
default_service_time == 8
depot_latest == 480

-----------------------------------------------------------------------------
(* Arithmetic helpers *)

Max(a, b) == IF a >= b THEN a ELSE b

Min(a, b) == IF a <= b THEN a ELSE b

Abs(a) == IF a >= 0 THEN a ELSE -a

\* Python's int(a / b) for b > 0: true division, then truncation toward zero.
TruncDiv(a, b) == IF a >= 0 THEN a \div b ELSE -((-a) \div b)

\* The element of a one-element set: a value computed once and named.
The(S) == CHOOSE x \in S : TRUE

RECURSIVE SumSeq(_)
SumSeq(s) ==
    The({ IF x = <<>> THEN 0 ELSE Head(x) + SumSeq(Tail(x)) : x \in {s} })

\* The elements of a sequence.
Range(s) == {s[i] : i \in DOMAIN s}

\* s without its last element.
Front(s) == SubSeq(s, 1, Len(s) - 1)

\* All sequences over S of length n.
SeqsOfLen(S, n) == [1..n -> S]

-----------------------------------------------------------------------------
(* The distance matrices the requests carry, by name.                      *)
(*   line: symmetric, locations on a line 700 m apart                      *)
(*   ring: asymmetric, 400 m to the next location round the ring, 900 m    *)
(*         to any other                                                    *)
(*   neg:  line with one negative entry (an invalid matrix)                *)

MatrixKinds == {"line", "ring"}

Dist(kind, n, i, j) ==
    IF i = j THEN 0
    ELSE IF kind = "ring" THEN (IF j = (i + 1) % n THEN 400 ELSE 900)
    ELSE IF kind = "neg" /\ i = 0 /\ j = 1 THEN -700
    ELSE IF kind = "back" /\ i = 1 /\ j = 2 THEN -1400
    ELSE 700 * Abs(i - j)

-----------------------------------------------------------------------------
(* Requests.  One record shape serves the three entries:                   *)
(*   "cvrp"   POST /api/optimize/cvrp: the JSON body's fields; `missing`   *)
(*            names a required field the body lacks ("" for none)          *)
(*   "batch"  POST /api/optimize/batch: demands, tw and service run over   *)
(*            the body's locations (the depot is not among them); a        *)
(*            location without "time_window" has tw entry <<>>, one        *)
(*            without "service_time" has service entry NoValue             *)
(*   "direct" a call of CVRPOptimizer.optimize with these arguments;       *)
(*            has_tw = FALSE is time_windows=None, has_service = FALSE is  *)
(*            service_times=None                                           *)

NoValue == -1

\* A location of a batch body without the key "id".
NoId == ""

Entries == {"cvrp", "batch", "direct"}

RequiredFields == <<"distance_matrix", "demands", "vehicle_capacities", "num_vehicles">>

DemandVals == {1, 2}

CapVals == {2, 3}

\* The fleet sizes.
Fleets == {1, 2}

WindowVals == {<<0, 480>>, <<0, 1>>, <<40, 50>>, <<2, 1>>}

TimeLimits == {1, MaxTimeLimit}

Request(entry, missing, n, dm, demands, caps, nv, depot, has_tw, tw, has_sv, sv, tl) ==
    [entry |-> entry, missing |-> missing, n |-> n, dm |-> dm,
     demands |-> demands, caps |-> caps, num_vehicles |-> nv, depot |-> depot,
     has_tw |-> has_tw, tw |-> tw, has_service |-> has_sv,
     service |-> sv, time_limit |-> tl, ids |-> <<>>]

\* Well-formed capacity problems without time windows.
CapacityRequests ==
    { Request(e, "", n, dm, <<0>> \o ds, cs, Len(cs), 0, FALSE, <<>>, FALSE, <<>>, tl) :
        e \in {"cvrp", "direct"},
        n \in 1..MaxLocations,
        dm \in MatrixKinds,
        ds \in UNION {SeqsOfLen(DemandVals, k) : k \in 0..(MaxLocations - 1)},
        cs \in UNION {SeqsOfLen(CapVals, v) : v \in Fleets},
        tl \in TimeLimits }

\* The depot is the last location instead of the first.
OtherDepotRequests ==
    { Request("direct", "", n, dm, [i \in 1..n |-> IF i = n THEN 0 ELSE 1],
              <<c, c>>, 2, n - 1, FALSE, <<>>, FALSE, <<>>, MaxTimeLimit) :
        n \in 2..MaxLocations, dm \in MatrixKinds, c \in CapVals }

\* Problems with time windows: unit demands, ample capacity.
WindowRequests ==
    { Request("direct", "", n, "line", [i \in 1..n |-> IF i = 1 THEN 0 ELSE 1],
              [v \in 1..nv |-> MaxLocations], nv, 0,
              TRUE, <<<<0, 480>>>> \o ws, sv,
              IF sv THEN [i \in 1..n |-> IF i = 1 THEN 0 ELSE default_service_time]
                    ELSE <<>>,
              MaxTimeLimit) :
        n \in 2..MaxLocations,
        nv \in Fleets,
        ws \in UNION {SeqsOfLen(WindowVals, k) : k \in 1..(MaxLocations - 1)},
        sv \in BOOLEAN }

\* A window on the depot: narrow, or inverted.
DepotWindowRequests ==
    { Request("direct", "", n, "line", [i \in 1..n |-> IF i = 1 THEN 0 ELSE 1],
              <<MaxLocations>>, 1, 0,
              TRUE, [i \in 1..n |-> IF i = 1 THEN dw ELSE w], FALSE, <<>>,
              MaxTimeLimit) :
        n \in 2..MaxLocations,
        dw \in {<<0, 0>>, <<3, 1>>},
        w \in {<<0, 480>>, <<40, 50>>} }

\* The same through POST /api/optimize/cvrp, with the windows in the body.
CvrpWindowRequests ==
    { Request("cvrp", "", n, "line", [i \in 1..n |-> IF i = 1 THEN 0 ELSE 1],
              <<MaxLocations>>, 1, 0,
              TRUE, [i \in 1..n |-> IF i = 1 THEN <<0, 480>> ELSE w], FALSE, <<>>,
              MaxTimeLimit) :
        n \in 2..MaxLocations,
        w \in WindowVals }

\* Batch bodies: some locations with a window or a service time, some
\* without; the locations all with an "id" ("D1", "D2", ...) or all without.
\* The points lie on a meridian, int(haversine) of two neighbours is 700.
BatchRequests ==
    { [Request("batch", "", n, "line", [i \in 1..(n - 1) |-> 1],
               <<MaxLocations>>, 1, 0,
               FALSE, ws, FALSE, [i \in 1..(n - 1) |-> sv], MaxTimeLimit)
         EXCEPT !.ids = [i \in 1..(n - 1) |-> IF with_id THEN "D" \o ToString(i) ELSE NoId]] :
        n \in 1..MaxLocations,
        ws \in UNION {SeqsOfLen((WindowVals \ {<<0, 480>>}) \cup {<<>>}, k) :
                        k \in 0..(MaxLocations - 1)},
        sv \in {NoValue, 0},
        with_id \in BOOLEAN }

\* Requests that break a rule of the problem model, one rule each.
InvalidRequests ==
    LET ok == Request("cvrp", "", 3, "line", <<0, 1, 2>>, <<3, 3>>, 2, 0,
                      FALSE, <<>>, FALSE, <<>>, MaxTimeLimit)
    IN  UNION {
          { [ok EXCEPT !.missing = RequiredFields[i]] : i \in DOMAIN RequiredFields },
          { [ok EXCEPT !.demands = <<0, 1>>] },                 \* len(demands) # N
          { [ok EXCEPT !.num_vehicles = 1] },                   \* len(capacities) # V
          { [ok EXCEPT !.demands = <<1, 1, 2>>, !.entry = e] : e \in {"cvrp", "direct"} },
          { [ok EXCEPT !.demands = <<0, -1, 2>>, !.entry = e] : e \in {"cvrp", "direct"} },
          { [ok EXCEPT !.dm = "neg", !.entry = e] : e \in {"cvrp", "direct"} },
          \* demands[depot] # 0 with no location beyond the depot
          { Request(e, "", 1, "line", <<1>>, <<3>>, 1, 0, FALSE, <<>>, FALSE, <<>>,
                    MaxTimeLimit) : e \in {"cvrp", "direct"} },
          \* len(time_windows) # N
          { [ok EXCEPT !.entry = "direct", !.has_tw = TRUE, !.tw = <<<<0, 480>>, <<0, 1>>>>] },
          \* a window beyond the horizon
          { [ok EXCEPT !.entry = "direct", !.has_tw = TRUE,
                       !.tw = <<<<0, 480>>, <<500, 600>>, <<0, 480>>>>] }
        }

\* A negative distance between two locations, the first with a window.
NegativeTransitRequests ==
    { Request("direct", "", 3, "back", <<0, 1, 2>>, <<3, 3>>, 2, 0,
              TRUE, <<<<0, 480>>, <<40, 50>>, <<0, 480>>>>, FALSE, <<>>, MaxTimeLimit) }

\* A fleet with a vehicle of capacity 0, which can only stay at the depot.
ZeroCapacityRequests ==
    { Request(e, "", 3, "line", <<0, 1, 2>>, <<3, 0>>, 2, 0, FALSE, <<>>, FALSE, <<>>,
              MaxTimeLimit) : e \in {"cvrp", "direct"} }

Requests ==
    { r \in CapacityRequests \cup OtherDepotRequests \cup WindowRequests
             \cup DepotWindowRequests \cup CvrpWindowRequests \cup BatchRequests :
        /\ r.entry = "batch" \/ Len(r.demands) = r.n
        /\ r.entry # "batch" => (r.has_tw => Len(r.tw) = r.n)
        /\ r.entry = "batch" => Len(r.tw) = r.n - 1 }
    \cup InvalidRequests \cup NegativeTransitRequests \cup ZeroCapacityRequests

-----------------------------------------------------------------------------
(* The arguments optimize() receives from each entry. *)

Args(n, dm, demands, caps, nv, depot, tl, has_tw, tw, service) ==
    [n |-> n, dm |-> dm, demands |-> demands, caps |-> caps,
     num_vehicles |-> nv, depot |-> depot, time_limit |-> tl,
     has_tw |-> has_tw, tw |-> tw, service |-> service]

\* optimize(): service_times defaults to zeros when windows are given.
ServiceTimes(n, has_tw, has_service, service) ==
    IF ~has_tw THEN <<>>
    ELSE IF has_service THEN service
    ELSE [i \in 1..n |-> 0]

\* A direct call passes its arguments as they are.
DirectArgs(r) ==
    Args(r.n, r.dm, r.demands, r.caps, r.num_vehicles, r.depot, r.time_limit,
         r.has_tw, r.tw, ServiceTimes(r.n, r.has_tw, r.has_service, r.service))

\* optimize_cvrp: the body's time_windows and service_times are not read.
CvrpArgs(r) ==
    Args(r.n, r.dm, r.demands, r.caps, r.num_vehicles, r.depot, r.time_limit,
         FALSE, <<>>, <<>>)

\* optimize_cvrp: the 400 responses, in the order the handler tests them
\* ("" when the request passes).
CvrpRejection(r) ==
    IF r.missing # "" THEN "Missing required field: " \o r.missing
    ELSE IF r.n # Len(r.demands) THEN "Distance matrix and demands must have same length"
    ELSE IF Len(r.caps) # r.num_vehicles THEN "Vehicle capacities must match number of vehicles"
    ELSE ""

\* optimize_batch: the depot is location 0 with demand 0; windows are built
\* only if some location has one, the depot's is (0, 480), a location without
\* one gets (0, 480), a location without a service time gets 8 minutes.
BatchArgs(r) ==
    LET any_tw == \E i \in DOMAIN r.tw : r.tw[i] # <<>>
        tws == <<<<0, depot_latest>>>> \o
               [i \in DOMAIN r.tw |-> IF r.tw[i] # <<>> THEN r.tw[i] ELSE <<0, depot_latest>>]
        svs == <<0>> \o
               [i \in DOMAIN r.service |->
                    IF r.service[i] # NoValue THEN r.service[i] ELSE default_service_time]
    IN  Args(Len(r.demands) + 1, r.dm, <<0>> \o r.demands, r.caps, Len(r.caps), 0,
             r.time_limit, any_tw,
             IF any_tw THEN tws ELSE <<>>,
             IF any_tw THEN svs ELSE <<>>)

ArgsOf(r) ==
    CASE r.entry = "cvrp" -> CvrpArgs(r)
      [] r.entry = "batch" -> BatchArgs(r)
      [] OTHER -> DirectArgs(r)

-----------------------------------------------------------------------------
(* The routing model optimize() registers, for arguments a. *)

Vehicles(a) == 1..a.num_vehicles

Customers(a) == (0..(a.n - 1)) \ {a.depot}

\* distance_callback: the arc cost of every vehicle.
ArcCost(a, i, j) == Dist(a.dm, a.n, i, j)

\* demand_callback.
Demand(a, i) == a.demands[i + 1]

\* TimeTransit without the service time.
TimeTransitWithoutService(a, i, j) ==
    TruncDiv(Dist(a.dm, a.n, i, j), speed_m_per_min)

\* time_callback: int(dist / 667) plus the service time at the origin.
TimeTransit(a, i, j) ==
    TruncDiv(Dist(a.dm, a.n, i, j), speed_m_per_min) + a.service[i + 1]

\* TimeRange without the SetRange calls.
TimeRangeUnset(a, i) == <<0, horizon>>

\* The range of the Time cumul variable of a location: [0, horizon] from
\* AddDimension, narrowed by SetRange(int(earliest), int(latest)) for every
\* entry of time_windows but the depot's.
TimeRange(a, i) ==
    IF a.has_tw /\ i # a.depot /\ i + 1 <= Len(a.tw)
    THEN <<Max(0, a.tw[i + 1][1]), Min(horizon, a.tw[i + 1][2])>>
    ELSE <<0, horizon>>

\* SetRange on an empty range fails, which Python sees as an exception
\* ("CP Solver fail") raised while the model is built.
SetRangeFails(a) ==
    /\ a.has_tw
    /\ \E i \in 0..(Len(a.tw) - 1) :
          i # a.depot /\ TimeRange(a, i)[1] > TimeRange(a, i)[2]

\* PathOf with every vehicle starting and ending at location 0.
PathOfFromZero(a, route, closed) ==
    <<0>> \o route \o (IF closed THEN <<0>> ELSE <<>>)

\* PathOf with the walk of a route ending one stop early.
PathOfStoppingEarly(a, route, closed) ==
    <<a.depot>> \o Front(route) \o (IF closed THEN <<a.depot>> ELSE <<>>)

\* The locations a vehicle passes: the depot, its route, and (closed) the depot.
PathOf(a, route, closed) ==
    <<a.depot>> \o route \o (IF closed THEN <<a.depot>> ELSE <<>>)

\* Capacity cumul at position p of a path: starts at zero, grows by the
\* demand of each location left behind (no slack).
LoadBefore(a, path, p) == SumSeq([q \in 1..(p - 1) |-> Demand(a, path[q])])

\* The Capacity dimension on a path: every cumul within [0, capacity of the
\* vehicle], the cumul of the yet unknown successor of an open path included.
CapacityHolds(a, v, path, closed) ==
    \A p \in 1..(Len(path) + (IF closed THEN 0 ELSE 1)) :
        /\ LoadBefore(a, path, p) >= 0
        /\ LoadBefore(a, path, p) <= a.caps[v]

\* The Time dimension on a path: cumul(next) - cumul(cur) lies in
\* [transit, transit + 30], every cumul in its range.  TimeBounds gives the
\* least and greatest value of each cumul (one pass forward, one backward).
RECURSIVE ForwardBounds(_, _, _)
ForwardBounds(a, path, p) ==
    IF p = 1 THEN <<TimeRange(a, path[1])>>
    ELSE The({ LET r == TimeRange(a, path[p])
                   t == TimeTransit(a, path[p - 1], path[p])
               IN  Append(prev, <<Max(r[1], prev[p - 1][1] + t),
                                  Min(r[2], prev[p - 1][2] + t + waiting_slack)>>) :
               prev \in {ForwardBounds(a, path, p - 1)} })

RECURSIVE BackwardBounds(_, _, _, _)
BackwardBounds(a, path, fwd, p) ==
    IF p = Len(path) THEN <<fwd[p]>>
    ELSE The({ LET t == TimeTransit(a, path[p], path[p + 1])
               IN  <<<<Max(fwd[p][1], next[1][1] - t - waiting_slack),
                       Min(fwd[p][2], next[1][2] - t)>>>> \o next :
               next \in {BackwardBounds(a, path, fwd, p + 1)} })

TimeBounds(a, path) ==
    The({ [min |-> [p \in 1..Len(path) |-> b[p][1]],
           max |-> [p \in 1..Len(path) |-> b[p][2]]] :
          b \in { BackwardBounds(a, path, fwd, 1) :
                    fwd \in {ForwardBounds(a, path, Len(path))} } })

TimeHolds(a, path) ==
    a.has_tw =>
        \A b \in {TimeBounds(a, path)} :
            \A p \in 1..Len(path) : b.min[p] <= b.max[p]

\* A complete assignment (one route per vehicle) the solver may hold: every
\* route satisfies both dimensions.
Feasible(a, routes) ==
    \A v \in Vehicles(a) :
        \A path \in {PathOf(a, routes[v], TRUE)} :
            CapacityHolds(a, v, path, TRUE) /\ TimeHolds(a, path)

\* The objective: the sum of the arc costs along every route.
RouteCost(a, route) ==
    LET path == PathOf(a, route, TRUE)
    IN  SumSeq([p \in 1..(Len(path) - 1) |-> ArcCost(a, path[p], path[p + 1])])

-----------------------------------------------------------------------------
(* _extract_solution: the response built from the assignment the solve     *)
(* returned.  A Python dict key that is not set is a record field that is  *)
(* not there.  A quotient is kept exact as [num, den].                     *)

Ratio(num, den) == [num |-> num, den |-> den]

\* The stop record of position p of a vehicle's closed path of length m,
\* b the bounds of the Time cumuls along the path.
ExtractStop(a, path, b, p) ==
    LET m == Len(path)
        base == IF p < m
                THEN [location_index |-> path[p],
                      cumulative_load |-> LoadBefore(a, path, p + 1),
                      demand |-> Demand(a, path[p])]
                ELSE [location_index |-> path[m],
                      cumulative_load |-> LoadBefore(a, path, m),
                      demand |-> 0]
    IN  IF ~a.has_tw THEN base
        ELSE IF p < m
        THEN base @@ [arrival_time |-> b.min[p], departure_time |-> b.max[p]]
        ELSE base @@ [arrival_time |-> b.min[m]]

ExtractRoute(a, routes, v) ==
    The({ LET m == Len(path)
              route_load == LoadBefore(a, path, m)
              base == [vehicle_id |-> v - 1,
                       stops |-> [p \in 1..m |-> ExtractStop(a, path, b, p)],
                       total_distance |-> RouteCost(a, routes[v]),
                       total_load |-> route_load,
                       capacity_utilization |-> Ratio(route_load * 100, a.caps[v])]
          IN  IF a.has_tw THEN base @@ [total_time |-> b.min[m]]
              ELSE base :
          path \in {PathOf(a, routes[v], TRUE)},
          b \in {IF a.has_tw THEN TimeBounds(a, PathOf(a, routes[v], TRUE)) ELSE <<>>} })

\* ExtractSummary counting every route as a used vehicle.
ExtractSummaryCountingAll(a, rs) ==
    LET nv == a.num_vehicles
        total_distance == SumSeq([v \in 1..nv |-> rs[v].total_distance])
        total_load == SumSeq([v \in 1..nv |-> rs[v].total_load])
        total_time == SumSeq([v \in 1..nv |-> rs[v].total_time])
        base == [total_distance |-> total_distance,
                 total_load |-> total_load,
                 total_demand |-> SumSeq(a.demands),
                 num_vehicles_used |-> nv,
                 average_route_distance |-> Ratio(total_distance, nv),
                 average_load_per_vehicle |-> Ratio(total_load, nv)]
    IN  IF a.has_tw
        THEN base @@ [total_time |-> total_time,
                      average_route_time |-> Ratio(total_time, nv)]
        ELSE base

ExtractSummary(a, rs) ==
    LET nv == a.num_vehicles
        total_distance == SumSeq([v \in 1..nv |-> rs[v].total_distance])
        total_load == SumSeq([v \in 1..nv |-> rs[v].total_load])
        total_time == SumSeq([v \in 1..nv |-> rs[v].total_time])
        base == [total_distance |-> total_distance,
                 total_load |-> total_load,
                 total_demand |-> SumSeq(a.demands),
                 num_vehicles_used |-> Cardinality({v \in 1..nv : Len(rs[v].stops) > 2}),
                 average_route_distance |-> Ratio(total_distance, nv),
                 average_load_per_vehicle |-> Ratio(total_load, nv)]
    IN  IF a.has_tw
        THEN base @@ [total_time |-> total_time,
                      average_route_time |-> Ratio(total_time, nv)]
        ELSE base

\* The divisions of the extraction raise ZeroDivisionError on a zero
\* capacity or a fleet of no vehicle.
ExtractRaises(a) ==
    \/ a.num_vehicles = 0
    \/ \E v \in Vehicles(a) : a.caps[v] = 0

Failure(msg) == [success |-> FALSE, error |-> msg]

\* datetime.now() when the result is built: the readings of the wall clock
\* the model tells apart (the code writes them with isoformat()).
Timestamps == {1, 2}

ExtractSolution(a, routes, now) ==
    The({ [success |-> TRUE,
           routes |-> rs,
           summary |-> ExtractSummary(a, rs),
           optimization_metadata |->
               [algorithm |-> "OR-Tools CVRP",
                strategy |-> "PATH_CHEAPEST_ARC + GUIDED_LOCAL_SEARCH",
                time_windows_enabled |-> a.has_tw,
                timestamp |-> now]] :
          rs \in {[v \in 1..a.num_vehicles |-> ExtractRoute(a, routes, v)]} })

\* SolutionResult with the routes extracted before the exception left in
\* the failure.
SolutionResultKeepingRoutes(a, routes, now) ==
    IF ExtractRaises(a)
    THEN [success |-> FALSE, error |-> "division by zero",
          routes |-> [v \in {w \in Vehicles(a) : \A x \in 1..w : a.caps[x] # 0} |->
                        ExtractRoute(a, routes, v)]]
    ELSE ExtractSolution(a, routes, now)

\* optimize() after the solve: the extraction of the returned assignment,
\* any exception turned into a failure by the except clause.
SolutionResult(a, routes, now) ==
    IF ExtractRaises(a) THEN Failure("division by zero")
    ELSE ExtractSolution(a, routes, now)

\* NoSolutionResult reporting an empty plan as a success.
EmptyPlanResult == [success |-> TRUE, routes |-> <<>>]

\* optimize() when the solve returned no assignment.
NoSolutionResult == Failure("No solution found")

\* The endpoints: 200 for success, 500 for any failure of optimize().
StatusOf(r, res) ==
    IF r.entry = "direct" THEN 0
    ELSE IF res.success THEN 200
    ELSE 500

\* The point of a batch body: the depot (0) or location idx, latitude and
\* longitude in millionths of a degree.
PointOf(r, idx) == [lat |-> 6298 * idx, lng |-> 0]

\* optimize_batch, one stop of a successful result: the depot's point and
\* name, or the location's point, its id or "Location <idx>" as its name,
\* and its id (None without one).
EnrichStop(r, stop) ==
    The({ IF idx = 0
          THEN stop @@ [location |-> PointOf(r, 0), name |-> "Depot"]
          ELSE stop @@ [location |-> PointOf(r, idx),
                        name |-> IF r.ids[idx] # NoId THEN r.ids[idx]
                                 ELSE "Location " \o ToString(idx),
                        location_id |-> IF r.ids[idx] # NoId THEN r.ids[idx]
                                        ELSE "None"] :
          idx \in {stop.location_index} })

\* optimize_batch enriches the stops of a successful result.
Enrich(r, res) ==
    IF r.entry = "batch" /\ res.success
    THEN [res EXCEPT !.routes =
            [v \in DOMAIN res.routes |->
                [res.routes[v] EXCEPT !.stops =
                    [p \in DOMAIN res.routes[v].stops |->
                        EnrichStop(r, res.routes[v].stops[p])]]]]
    ELSE res

-----------------------------------------------------------------------------
(* What routing.SolveWithParameters can return.  No location is optional   *)
(* (optimize() registers no disjunction), so an assignment routes every    *)
(* customer; the Capacity and Time dimensions are hard constraints of it.  *)

Orderings(S) == {s \in SeqsOfLen(S, Cardinality(S)) : Range(s) = S}

\* The cut points that split a sequence of k locations among nv vehicles.
Cuts(k, nv) ==
    {c \in [0..nv -> 0..k] :
        /\ c[0] = 0
        /\ c[nv] = k
        /\ \A v \in 1..nv : c[v - 1] <= c[v]}

\* Every way to route every customer exactly once.
AllAssignments(a) ==
    IF a.num_vehicles = 0 THEN {}
    ELSE { [v \in 1..a.num_vehicles |-> SubSeq(s, c[v - 1] + 1, c[v])] :
             s \in Orderings(Customers(a)),
             c \in Cuts(Cardinality(Customers(a)), a.num_vehicles) }

\* The assignments SolveWithParameters can return: every customer routed,
\* the dimensions kept.
Assignments(a) == {routes \in AllAssignments(a) : Feasible(a, routes)}

FeasibleExists(a) == Assignments(a) # {}

-----------------------------------------------------------------------------
(* database_connection.py: the circuit breaker and the connection handle   *)
(* of the analytics scripts.  Time is in whole seconds; None is NoValue.   *)

\* CircuitBreaker.__init__, as DatabaseConnection.__init__ calls it.
NewCircuitBreaker ==
    [state |-> "CLOSED", failure_count |-> 0, last_failure_time |-> NoValue]

\* DatabaseConnection.__init__.
NewDatabaseConnection(enable_fallback) ==
    [conn |-> "None", is_fallback_mode |-> FALSE, enable_fallback |-> enable_fallback]

\* No call of connect() yet.
NoCall ==
    [pc |-> "idle", retry_attempts |-> 0, base_delay |-> 0, attempt |-> 0,
     attempts_made |-> 0, attempts_failed |-> 0, failures_recorded |-> 0,
     sleeps |-> <<>>,
     returned |-> "none", calls |-> 0]

\* No call through the breaker's wrapper yet.
NoWrapperCall == [pc |-> "idle", called |-> FALSE, outcome |-> "none"]

\* A database handle as constructed and never used: the optimization
\* service opens no database.
NoDatabase ==
    /\ circuit_breaker = NewCircuitBreaker
    /\ database = NewDatabaseConnection(FALSE)
    /\ connect_call = NoCall
    /\ wrapper_call = NoWrapperCall
    /\ clock = 1

-----------------------------------------------------------------------------
(* The state machine *)

Outcomes == {"none", "Rejected", "ModelError", "Infeasible",
             "TimedOutNoIncumbent", "TimedOut", "Converged"}

NoResult == [pending |-> TRUE]

Init ==
    /\ req \in Requests
    /\ pc = "request"
    /\ outcome = "none"
    /\ solve_calls = 0
    /\ result = NoResult
    /\ http = 0
    /\ solution_cache = {}
    /\ others = <<>>
    /\ NoDatabase

\* CacheAfterOptimize with optimize() keeping the result it returns.
CacheStoring(cache, a, res) == cache \cup {<<a, res>>}

\* The field of the shared optimizer after a call of optimize(): no statement
\* of optimize() or _extract_solution assigns to self, the cache is as it was.
CacheAfterOptimize(cache, a, res) == cache

\* The handling ends: the response goes to the caller.
Respond(o, res) ==
    /\ pc' = "done"
    /\ outcome' = o
    /\ \E r \in {res} :
          /\ result' = Enrich(req, r)
          /\ http' = StatusOf(req, r)
          /\ solution_cache' = CacheAfterOptimize(solution_cache, ArgsOf(req), r)

\* optimize_cvrp answers 400 to a body it does not accept.
RejectRequest ==
    /\ pc = "request"
    /\ req.entry = "cvrp"
    /\ CvrpRejection(req) # ""
    /\ pc' = "done"
    /\ outcome' = "Rejected"
    /\ result' = Failure(CvrpRejection(req))
    /\ http' = 400
    /\ UNCHANGED <<req, solve_calls,
                   solution_cache, others, db_vars>>

Accepted == req.entry = "cvrp" => CvrpRejection(req) = ""

\* optimize() fails while it builds the routing model: SetRange raises, the
\* except clause returns the failure, the solve is never entered.
BuildModelFails ==
    /\ pc = "request"
    /\ Accepted
    /\ \E a \in {ArgsOf(req)} :
          /\ SetRangeFails(a)
          /\ Respond("ModelError", Failure("CP Solver fail"))
          /\ UNCHANGED <<req, solve_calls,
                         others, db_vars>>

\* optimize() builds the routing model and enters SolveWithParameters.
StartSolve ==
    /\ pc = "request"
    /\ Accepted
    /\ \E a \in {ArgsOf(req)} :
          /\ ~SetRangeFails(a)
          /\ pc' = "solving"
          /\ solve_calls' = solve_calls + 1
          /\ UNCHANGED <<req, outcome, result, http, solution_cache, others, db_vars>>

\* How a solve that returns an assignment has ended, in the terms of the
\* specification: at the time limit or before it.  optimize() sees only the
\* assignment.
SolutionOutcomes == {"TimedOut", "Converged"}

\* How a solve that returns None has ended: no assignment exists, or the
\* time limit passed before one was found.  optimize() sees only None.
NoSolutionOutcomes(a) ==
    IF FeasibleExists(a) THEN {"TimedOutNoIncumbent"}
    ELSE {"Infeasible", "TimedOutNoIncumbent"}

\* SolveWithParameters returns an assignment: optimize() returns what
\* _extract_solution makes of it, or the failure of the extraction.
SolveReturnsSolution ==
    /\ pc = "solving"
    /\ \E a \in {ArgsOf(req)} :
          /\ \E routes \in Assignments(a), now \in Timestamps, o \in SolutionOutcomes :
                Respond(o, SolutionResult(a, routes, now))
          /\ UNCHANGED <<req, solve_calls, others, db_vars>>

\* SolveWithParameters returns None: optimize() returns 'No solution found'.
SolveReturnsNone ==
    /\ pc = "solving"
    /\ \E a \in {ArgsOf(req)} :
          /\ \E o \in NoSolutionOutcomes(a) : Respond(o, NoSolutionResult)
          /\ UNCHANGED <<req, solve_calls, others, db_vars>>

Next ==
    \/ RejectRequest
    \/ BuildModelFails
    \/ StartSolve
    \/ SolveReturnsSolution
    \/ SolveReturnsNone

Spec == Init /\ [][Next]_vars

-----------------------------------------------------------------------------
(* Requests handled at the same time.  The server handles every request in a
   thread of its own (app.run); each handler calls optimize() of the one
   module-level optimizer and works on the locals of its own call. *)

OtherThreads == 2

\* What a call of optimize() on arguments a can return: the failure of the
\* model building, no solution, or the extraction of an assignment that
\* satisfies the dimensions.
ResultsOfOptimize(a) ==
    IF SetRangeFails(a) THEN {Failure("CP Solver fail")}
    ELSE {NoSolutionResult} \cup
         {SolutionResult(a, routes, now) :
            routes \in Assignments(a), now \in Timestamps}

\* What the handling of request r can answer.
ResultsOf(r) ==
    IF r.entry = "cvrp" /\ CvrpRejection(r) # "" THEN {Failure(CvrpRejection(r))}
    ELSE {Enrich(r, res) : res \in ResultsOfOptimize(ArgsOf(r))}

\* The requests of the concurrent runs: three locations, one vehicle and
\* every demand and capacity through optimize_cvrp, the requests that break
\* a rule through optimize_cvrp, and the calls of optimize() with windows
\* that break a rule, where the building of the model can fail.
ConcRequests ==
    {r \in CapacityRequests :
        /\ r.entry = "cvrp" /\ r.dm = "line" /\ r.n = 3
        /\ r.num_vehicles = 1 /\ Len(r.demands) = r.n}
    \cup {r \in InvalidRequests : r.entry = "cvrp" \/ r.has_tw}

\* The request of the other threads: one customer, which the vehicle can take.
OtherRequests ==
    {r \in CapacityRequests :
        /\ r.entry = "cvrp" /\ r.dm = "line" /\ r.n = 2
        /\ r.demands = <<0, 2>> /\ r.caps = <<3>> /\ r.time_limit = 1}

Handler(r) == [req |-> r, pc |-> "request", result |-> NoResult]

ConcInit ==
    /\ req \in ConcRequests
    /\ pc = "request"
    /\ outcome = "none"
    /\ solve_calls = 0
    /\ result = NoResult
    /\ http = 0
    /\ solution_cache = {}
    /\ others \in [1..OtherThreads -> {Handler(r) : r \in OtherRequests}]
    /\ NoDatabase

\* Another thread enters optimize() with the arguments of its request.
OtherStart ==
    \E i \in DOMAIN others :
        /\ others[i].pc = "request"
        /\ others' = [others EXCEPT ![i].pc = "solving"]
        /\ UNCHANGED <<req, pc, outcome, 
                       solve_calls, result, http, solution_cache, db_vars>>

\* Another thread returns from optimize() and answers its caller.
OtherFinish ==
    \E i \in DOMAIN others :
        /\ others[i].pc = "solving"
        /\ \E a \in {ArgsOf(others[i].req)} : \E res \in ResultsOfOptimize(a) :
              /\ others' = [others EXCEPT ![i].pc = "done",
                                          ![i].result = Enrich(others[i].req, res)]
              /\ solution_cache' = CacheAfterOptimize(solution_cache, a, res)
        /\ UNCHANGED <<req, pc, outcome, 
                       solve_calls, result, http, db_vars>>

ConcNext == Next \/ OtherStart \/ OtherFinish

ConcSpec == ConcInit /\ [][ConcNext]_vars

-----------------------------------------------------------------------------
(* The analytics process: one DatabaseConnection, its circuit breaker,     *)
(* calls of connect() one after the other, and time passing between them   *)
(* and in the sleeps of the retry loop.                                    *)

\* The arguments connect() is called with.
RetryAttempts == 0..MaxRetryAttempts

BaseDelays == {1, 2}

\* The time that passes between two calls.
IdleWaits == {reset_timeout - 1, reset_timeout}

RECURSIVE Pow2(_)
Pow2(k) == IF k = 0 THEN 1 ELSE 2 * Pow2(k - 1)

\* _should_attempt_reset: a last_failure_time of None or 0 is falsy.
ShouldAttemptReset(cb, now) ==
    /\ cb.last_failure_time # NoValue
    /\ cb.last_failure_time # 0
    /\ now - cb.last_failure_time >= reset_timeout

\* _on_success.
OnSuccess(cb) == [cb EXCEPT !.failure_count = 0, !.state = "CLOSED"]

\* _on_failure.
OnFailure(cb, now) ==
    [state |-> IF cb.failure_count + 1 >= failure_threshold THEN "OPEN" ELSE cb.state,
     failure_count |-> cb.failure_count + 1,
     last_failure_time |-> now]

\* _activate_fallback_mode.
ActivateFallbackMode(db) == [db EXCEPT !.is_fallback_mode = TRUE]

\* The delay after the failed attempt number `attempt` (counted from 0).
Backoff(base_delay, attempt) == base_delay * Pow2(attempt)

\* The longest connect() can sleep: after every attempt but the last.
LongestSleep(retry_attempts, base_delay) ==
    SumSeq([k \in 1..(retry_attempts - 1) |-> Backoff(base_delay, k - 1)])

\* connect() when every attempt has failed, or none was allowed: the demo
\* data if the handle has the fallback, the exception otherwise.
GiveUp(db) == IF db.enable_fallback THEN ActivateFallbackMode(db) ELSE db

GiveUpReturns(db) == IF db.enable_fallback THEN "False" ELSE "raised"

DbInit ==
    /\ req \in OtherRequests
    /\ pc = "request"
    /\ outcome = "none"
    /\ solve_calls = 0
    /\ result = NoResult
    /\ http = 0
    /\ solution_cache = {}
    /\ others = <<>>
    /\ circuit_breaker = NewCircuitBreaker
    /\ database \in {NewDatabaseConnection(f) : f \in BOOLEAN}
    /\ connect_call = NoCall
    /\ wrapper_call = NoWrapperCall
    /\ clock = 1

\* connect() up to its retry loop: the check of the breaker, and the return
\* of the function when the loop has nothing to run.
Connect ==
    /\ connect_call.pc = "idle"
    /\ wrapper_call.pc = "idle"
    /\ \E retry_attempts \in RetryAttempts, base_delay \in BaseDelays :
          /\ clock + LongestSleep(retry_attempts, base_delay) <= MaxClock
          /\ connect_call.calls < MaxConnectCalls
          /\ \E frame \in {[NoCall EXCEPT !.retry_attempts = retry_attempts,
                                          !.base_delay = base_delay,
                                          !.calls = connect_call.calls + 1]} :
                IF circuit_breaker.state = "OPEN"
                   /\ ~ShouldAttemptReset(circuit_breaker, clock)
                THEN /\ circuit_breaker' = circuit_breaker
                     /\ database' = GiveUp(database)
                     /\ connect_call' = [frame EXCEPT !.returned = GiveUpReturns(database)]
                ELSE /\ circuit_breaker' =
                           IF circuit_breaker.state = "OPEN"
                           THEN [circuit_breaker EXCEPT !.state = "HALF_OPEN"]
                           ELSE circuit_breaker
                     /\ database' = database
                     /\ connect_call' =
                           IF retry_attempts = 0
                           THEN [frame EXCEPT !.returned = "False"]
                           ELSE [frame EXCEPT !.pc = "loop"]
    /\ UNCHANGED <<wrapper_call, clock, service_vars>>

\* One round of the loop in which psycopg2.connect returns a connection.
AttemptSucceeds ==
    /\ connect_call.pc = "loop"
    /\ database' = [database EXCEPT !.conn = "connection", !.is_fallback_mode = FALSE]
    /\ circuit_breaker' = OnSuccess(circuit_breaker)
    /\ connect_call' = [connect_call EXCEPT !.pc = "idle",
                                            !.attempts_made = @ + 1,
                                            !.returned = "True"]
    /\ UNCHANGED <<wrapper_call, clock, service_vars>>

\* One round of the loop in which psycopg2.connect raises a psycopg2.Error:
\* the failure is recorded, then the sleep and the next round, or the end of
\* the call.
AttemptFails ==
    /\ connect_call.pc = "loop"
    /\ circuit_breaker' = OnFailure(circuit_breaker, clock)
    /\ \E delay \in {Backoff(connect_call.base_delay, connect_call.attempt)} :
          IF connect_call.attempt < connect_call.retry_attempts - 1
          THEN /\ clock' = clock + delay
               /\ database' = database
               /\ connect_call' = [connect_call EXCEPT !.attempt = @ + 1,
                                                       !.attempts_made = @ + 1,
                                                       !.attempts_failed = @ + 1,
                                                       !.failures_recorded = @ + 1,
                                                       !.sleeps = Append(@, delay)]
          ELSE /\ clock' = clock
               /\ database' = GiveUp(database)
               /\ connect_call' = [connect_call EXCEPT !.pc = "idle",
                                                       !.attempts_made = @ + 1,
                                                       !.attempts_failed = @ + 1,
                                                       !.failures_recorded = @ + 1,
                                                       !.returned = GiveUpReturns(database)]
    /\ UNCHANGED <<wrapper_call, service_vars>>

\* One round of the loop in which psycopg2.connect raises an exception that
\* is no psycopg2.Error (a TypeError for a parameter of the configuration,
\* say): no except clause of connect() takes it, so it leaves connect()
\* with nothing recorded in the breaker, no sleep and no fallback.
AttemptRaisesOther ==
    /\ connect_call.pc = "loop"
    /\ connect_call' = [connect_call EXCEPT !.pc = "idle",
                                            !.attempts_made = @ + 1,
                                            !.attempts_failed = @ + 1,
                                            !.returned = "raised"]
    /\ UNCHANGED <<circuit_breaker, database, wrapper_call, clock, service_vars>>

\* What the wrapped function does: it returns, it raises an exception of
\* the class the breaker expects, or it raises another one.
FunctionOutcomes == {"returns", "raises expected", "raises other"}

\* A function decorated with the breaker is called: CircuitBreaker.__call__
\* up to the call of the function, or its exception when the breaker is
\* OPEN and the reset is not due.
WrapperEnter ==
    /\ connect_call.pc = "idle"
    /\ wrapper_call.pc = "idle"
    /\ IF circuit_breaker.state = "OPEN" /\ ~ShouldAttemptReset(circuit_breaker, clock)
       THEN /\ circuit_breaker' = circuit_breaker
            /\ wrapper_call' = [pc |-> "idle", called |-> FALSE, outcome |-> "raised"]
       ELSE /\ circuit_breaker' =
                  IF circuit_breaker.state = "OPEN"
                  THEN [circuit_breaker EXCEPT !.state = "HALF_OPEN"]
                  ELSE circuit_breaker
            /\ wrapper_call' = [pc |-> "running", called |-> TRUE, outcome |-> "none"]
    /\ UNCHANGED <<database, connect_call, clock, service_vars>>

\* The wrapped function ends: _on_success after its return, _on_failure
\* after an expected exception, neither after any other exception.
WrapperReturn ==
    /\ wrapper_call.pc = "running"
    /\ \E how \in FunctionOutcomes :
          /\ circuit_breaker' =
                CASE how = "returns" -> OnSuccess(circuit_breaker)
                  [] how = "raises expected" -> OnFailure(circuit_breaker, clock)
                  [] OTHER -> circuit_breaker
          /\ wrapper_call' = [pc |-> "idle", called |-> TRUE,
                              outcome |-> IF how = "returns" THEN "returned" ELSE "raised"]
    /\ UNCHANGED <<database, connect_call, clock, service_vars>>

\* Time passes between two calls.
Pass ==
    /\ connect_call.pc = "idle"
    /\ wrapper_call.pc = "idle"
    /\ \E d \in IdleWaits :
          /\ clock + d <= MaxClock
          /\ clock' = clock + d
    /\ UNCHANGED <<circuit_breaker, database, connect_call, wrapper_call, service_vars>>

DbNext ==
    \/ Connect
    \/ AttemptSucceeds
    \/ AttemptFails
    \/ AttemptRaisesOther
    \/ WrapperEnter
    \/ WrapperReturn
    \/ Pass

DbSpec == DbInit /\ [][DbNext]_vars

-----------------------------------------------------------------------------
(* Properties of the service *)

\* What optimize() was called with, and views of a finished handling.
args == ArgsOf(req)

Done == pc = "done"

Succeeded == pc = "done" /\ result.success

Failed == pc = "done" /\ ~result.success

\* The location indices of the stops of route v of the result.
StopLocations(v) ==
    [p \in DOMAIN result.routes[v].stops |-> result.routes[v].stops[p].location_index]

\* How many stops of the result, over all routes, are at location u.
Visits(u) ==
    SumSeq([v \in DOMAIN result.routes |->
              Cardinality({p \in DOMAIN StopLocations(v) : StopLocations(v)[p] = u})])

\* C1: Coverage. In every result with success = true every location but
\* the depot is a stop of exactly one route, exactly once in it.
C1_Coverage ==
    Succeeded => \A u \in Customers(args) : Visits(u) = 1

\* A success where both vehicles of a fleet of two serve customers.
C1_Witness ==
    /\ Succeeded
    /\ Cardinality(Customers(args)) >= 2
    /\ args.num_vehicles = 2
    /\ \A v \in 1..2 : Len(result.routes[v].stops) > 2

\* The stops of route v of the result keep the capacity of vehicle v and,
\* with windows registered, every stop but the depot's is reached within the
\* window of its location.
ResultWithinCapacity(a, v) ==
    \A p \in DOMAIN StopLocations(v) :
        SumSeq([q \in 1..p |-> IF q = 1 \/ q = Len(StopLocations(v)) THEN 0
                               ELSE Demand(a, StopLocations(v)[q])]) <= a.caps[v]

ResultWithinWindows(a, v) ==
    \A p \in DOMAIN StopLocations(v) :
        LET u == StopLocations(v)[p]
            stop == result.routes[v].stops[p]
        IN  (u # a.depot /\ u + 1 <= Len(a.tw)) =>
                /\ a.tw[u + 1][1] <= stop.arrival_time
                /\ stop.arrival_time <= a.tw[u + 1][2]
                /\ a.tw[u + 1][1] <= stop.departure_time
                /\ stop.departure_time <= a.tw[u + 1][2]

\* C3: the result of a search that ends TimedOut or Converged violates no
\* constraint: capacity on every route and, with time windows active, the
\* window of every stop.
C3_ResultFeasible ==
    (Succeeded /\ outcome \in {"TimedOut", "Converged"}) =>
        \A v \in Vehicles(args) :
            /\ ResultWithinCapacity(args, v)
            /\ args.has_tw => ResultWithinWindows(args, v)

\* A result with windows active where a customer has the window 40..50 and
\* one vehicle serves two customers.
C3_Witness ==
    /\ Succeeded
    /\ args.has_tw
    /\ Len(args.tw) = args.n
    /\ \E u \in Customers(args) : args.tw[u + 1] = <<40, 50>>
    /\ \E v \in DOMAIN result.routes : Len(result.routes[v].stops) = 4

\* The window a request supplies for location u (<<>> when it supplies none).
SuppliedWindow(r, u) ==
    IF r.entry = "batch"
    THEN IF u >= 1 /\ u <= Len(r.tw) THEN r.tw[u] ELSE <<>>
    ELSE IF r.has_tw /\ u + 1 <= Len(r.tw) THEN r.tw[u + 1] ELSE <<>>

SuppliesWindows(r) == \E u \in 0..(MaxLocations - 1) : SuppliedWindow(r, u) # <<>>

\* C5: Time-window invariant. Whenever a request supplies time windows and
\* the result has success = true, every stop is reached within the window
\* of its location, whichever entry the request came through.
C5_TimeWindowInvariant ==
    (Succeeded /\ SuppliesWindows(req)) =>
        \A v \in DOMAIN result.routes : \A p \in DOMAIN StopLocations(v) :
            LET w == SuppliedWindow(req, StopLocations(v)[p])
                stop == result.routes[v].stops[p]
            IN  w # <<>> =>
                    /\ "arrival_time" \in DOMAIN stop
                    /\ w[1] <= stop.arrival_time
                    /\ stop.arrival_time <= w[2]

\* C6: Conservation. Whenever the result has success = true,
\* summary.total_load equals summary.total_demand = sum(demands).
C6_Conservation ==
    Succeeded =>
        /\ result.summary.total_demand = SumSeq(args.demands)
        /\ result.summary.total_load = result.summary.total_demand

\* The rules of the problem model a request breaks.
ViolatesRule(r) ==
    /\ r.entry # "batch"
    /\ \/ Len(r.demands) # r.n
       \/ Len(r.caps) # r.num_vehicles
       \/ r.depot \notin 0..(r.n - 1)
       \/ (r.depot + 1 \in DOMAIN r.demands /\ r.demands[r.depot + 1] # 0)
       \/ \E i \in DOMAIN r.demands : r.demands[i] < 0
       \/ \E i, j \in 0..(r.n - 1) : Dist(r.dm, r.n, i, j) < 0

\* C7: Validation is fail-fast. A request that breaks a rule of the problem
\* model gets a validation error, and no construction or search step runs.
C7_ValidationFailFast ==
    ViolatesRule(req) =>
        /\ solve_calls = 0
        /\ pc # "solving"
        /\ Done => outcome = "Rejected"

\* A request whose windows are fewer or more than its locations, or have an
\* earliest after the latest.
BadWindows(r) ==
    \/ /\ r.entry # "batch"
       /\ r.has_tw
       /\ \/ Len(r.tw) # r.n
          \/ \E i \in DOMAIN r.tw : r.tw[i][1] > r.tw[i][2]
    \/ /\ r.entry = "batch"
       /\ \E i \in DOMAIN r.tw : r.tw[i] # <<>> /\ r.tw[i][1] > r.tw[i][2]

\* C8: a request with an inverted window, or with windows of the wrong
\* number, gets a validation error before any search; the solver is never
\* invoked.
C8_BadWindowsRejected ==
    BadWindows(req) =>
        /\ solve_calls = 0
        /\ Done => outcome = "Rejected"

\* The fleet cannot carry the demand; the window of some location cannot be
\* met by a vehicle that serves nothing else.
DemandExceedsFleet(a) == SumSeq(a.demands) > SumSeq(a.caps)

WindowUnmeetable(a) ==
    /\ a.has_tw
    /\ \E u \in Customers(a) : ~TimeHolds(a, <<a.depot, u, a.depot>>)

\* C9: Infeasibility is a value. When the demand exceeds the capacity of
\* the fleet, or the window of a location cannot be met, optimize() returns
\* success = false with a reason; no exception reaches the caller.
C9_InfeasibilityIsValue ==
    (Done /\ outcome # "Rejected"
          /\ (DemandExceedsFleet(args) \/ WindowUnmeetable(args))) =>
        /\ DOMAIN result = {"success", "error"}
        /\ result.success = FALSE
        /\ result.error \in {"No solution found", "CP Solver fail"}

\* The solve returned None for a fleet of 3 units that cannot carry 4.
C9_Witness ==
    /\ Failed
    /\ outcome = "Infeasible"
    /\ SumSeq(args.demands) = 4
    /\ SumSeq(args.caps) = 3
    /\ result.error = "No solution found"

\* C10: a run that ends because no solution exists and a run that ends
\* because the time ran out before a first solution never give the same
\* result.  What a run that ends Infeasible returns is NoSolutionResult.
C10_OutcomesDistinct ==
    (Done /\ outcome = "TimedOutNoIncumbent") => result # NoSolutionResult

\* C11: Propagation policy. A solve that ends because no solution exists or
\* because the time ran out is answered as a business outcome, never with a
\* server-error (5xx) status.
C11_NoServerErrorForOutcome ==
    (Done /\ outcome \in {"Infeasible", "TimedOutNoIncumbent", "TimedOut", "Converged"}
          /\ ~ExtractRaises(args)) =>
        http < 500

\* C16 (partial infeasibility is surfaced): when the construction closes
\* every vehicle's route while locations remain that no vehicle can take, the
\* result reports the unassigned set, and that set is exactly the non-depot
\* locations that appear in no route of the result.
RoutedLocations(res) ==
    IF "routes" \in DOMAIN res
    THEN UNION { {res.routes[v].stops[p].location_index : p \in DOMAIN res.routes[v].stops} :
                 v \in DOMAIN res.routes }
    ELSE {}

C16_UnassignedSurfaced ==
    (Done /\ outcome = "Infeasible") =>
        /\ "unassigned" \in DOMAIN result
        /\ result.unassigned = Customers(args) \ RoutedLocations(result)


\* C19 (depot at both ends): every route of a successful result, used or
\* unused, starts with a stop at the depot and ends with a stop at the depot,
\* and the depot is at no other stop of the route.
DepotAtBothEnds(stops, depot) ==
    /\ Len(stops) >= 2
    /\ stops[1].location_index = depot
    /\ stops[Len(stops)].location_index = depot
    /\ \A p \in 2..(Len(stops) - 1) : stops[p].location_index # depot

C19_DepotAtBothEnds ==
    Succeeded =>
        \A v \in DOMAIN result.routes :
            DepotAtBothEnds(result.routes[v].stops, args.depot)

C19_Witness ==
    /\ Succeeded
    /\ args.depot # 0
    /\ \E v \in DOMAIN result.routes : Len(result.routes[v].stops) = 2
    /\ \E v \in DOMAIN result.routes : Len(result.routes[v].stops) > 3


\* C20 (no location beyond the depot): with N = 1 and at least one vehicle
\* the result is successful, every vehicle's route is the depot-only route
\* with total_load = 0 and total_distance = 0, and num_vehicles_used = 0.
TrivialRoute(route, depot) ==
    /\ Len(route.stops) = 2
    /\ \A p \in 1..2 : route.stops[p].location_index = depot
    /\ route.total_load = 0
    /\ route.total_distance = 0

C20_DepotOnly ==
    (Done /\ args.n = 1 /\ args.num_vehicles >= 1) =>
        /\ result.success
        /\ \A v \in DOMAIN result.routes : TrivialRoute(result.routes[v], args.depot)
        /\ result.summary.num_vehicles_used = 0


\* C18 (concurrent requests are isolated): in any interleaving of the
\* handling of a request with the requests other threads handle, a step of
\* one handler leaves the locals of every other handler as they were, every
\* answer is one the request can get when it is handled alone, and the
\* solution_cache of the shared optimizer stays empty.
Locals ==
    <<req, pc, outcome, solve_calls, result, http>>

C18_Isolation ==
    [][ /\ solution_cache' = {}
        /\ others' # others => Locals' = Locals
        /\ \A i \in DOMAIN others : \A j \in DOMAIN others :
              (i # j /\ others'[i] # others[i]) => others'[j] = others[j]
        /\ pc' = "done" =>
              IF pc = "done" THEN result' = result /\ req' = req
              ELSE result' \in ResultsOf(req')
        /\ \A i \in DOMAIN others :
              others'[i].pc = "done" =>
                 IF others[i].pc = "done" THEN others'[i] = others[i]
                 ELSE others'[i].result \in ResultsOf(others'[i].req)
      ]_vars

C18_Witness ==
    /\ Succeeded
    /\ solve_calls = 1
    /\ others[1].pc = "done"
    /\ others[1].result.success
    /\ others[2].pc = "solving"
    /\ result # others[1].result
    /\ solution_cache = {}

\* C21 (monotonic time): with time windows active, along every route of a
\* successful result the reported arrival_time never decreases from one stop
\* to the next, from the depot departure to the depot return.
C21_MonotonicTime ==
    (Succeeded /\ args.has_tw) =>
        \A v \in DOMAIN result.routes :
            \A p \in 1..(Len(result.routes[v].stops) - 1) :
                result.routes[v].stops[p].arrival_time
                    <= result.routes[v].stops[p + 1].arrival_time

\* The sum of the reported demand of the first k stops of a stop list.
StopDemandSum(stops, k) == SumSeq([q \in 1..k |-> stops[q].demand])

\* C24 (extractor recomputation): in every route of a result, each stop's
\* cumulative_load is the sum of the demands of the stops from the route
\* start up to and including it, cumulative_load never decreases along the
\* route, the final depot stop's cumulative_load is the route's total_load,
\* and total_distance is the sum of the arc costs between consecutive stops.
C24_ExtractorRecomputation ==
    Succeeded =>
        \A v \in DOMAIN result.routes :
            \A route \in {result.routes[v]} :
                /\ \A p \in DOMAIN route.stops :
                      route.stops[p].cumulative_load = StopDemandSum(route.stops, p)
                /\ \A p \in 1..(Len(route.stops) - 1) :
                      route.stops[p].cumulative_load <= route.stops[p + 1].cumulative_load
                /\ route.stops[Len(route.stops)].cumulative_load = route.total_load
                /\ route.total_distance =
                      SumSeq([p \in 1..(Len(route.stops) - 1) |->
                                ArcCost(args, route.stops[p].location_index,
                                        route.stops[p + 1].location_index)])

\* The routes of the result that stop at some location other than the depot.
RoutesBeyondDepot ==
    {v \in DOMAIN result.routes :
        \E p \in DOMAIN result.routes[v].stops :
            result.routes[v].stops[p].location_index # args.depot}

\* C25 (vehicles used, utilization): in a successful result
\* summary.num_vehicles_used is the number of routes that visit a location
\* other than the depot, these are the routes of more than two stops, and
\* every route's capacity_utilization is total_load / capacity * 100 and lies
\* in [0, 100].
C25_UsedAndUtilization ==
    Succeeded =>
        /\ result.summary.num_vehicles_used = Cardinality(RoutesBeyondDepot)
        /\ \A v \in DOMAIN result.routes :
              \A route \in {result.routes[v]} :
                 /\ v \in RoutesBeyondDepot <=> Len(route.stops) > 2
                 /\ route.capacity_utilization = Ratio(route.total_load * 100, args.caps[v])
                 /\ route.capacity_utilization.den > 0
                 /\ 0 <= route.capacity_utilization.num
                 /\ route.capacity_utilization.num <= 100 * route.capacity_utilization.den

C25_Witness ==
    /\ Succeeded
    /\ result.summary.num_vehicles_used = 1
    /\ Len(result.routes) = 2
    /\ \E v \in DOMAIN result.routes :
          /\ result.routes[v].total_load > 0
          /\ result.routes[v].capacity_utilization.num
                = 100 * result.routes[v].capacity_utilization.den

\* Travel time plus the service time at the origin, from the request's data.
TravelAndService(a, i, j) ==
    TruncDiv(Dist(a.dm, a.n, i, j), 667) + a.service[i + 1]

\* C26 (time accumulation): with time windows active, in a successful result
\* the time at each stop is at least the time at the previous stop plus
\* travel time plus the previous stop's service time, and more than that by
\* at most the 30 minutes of waiting; no time exceeds the horizon of 480; no
\* windowed stop is reached after its latest (or served before its earliest).
C26_TimeAccumulation ==
    (Succeeded /\ args.has_tw) =>
        \A v \in DOMAIN result.routes :
            \A stops \in {result.routes[v].stops} :
                /\ \A p \in 1..(Len(stops) - 1) :
                      \A t \in {TravelAndService(args, stops[p].location_index,
                                                 stops[p + 1].location_index)} :
                          /\ stops[p + 1].arrival_time >= stops[p].arrival_time + t
                          /\ stops[p + 1].arrival_time <= stops[p].arrival_time + t + 30
                /\ \A p \in DOMAIN stops :
                      /\ stops[p].arrival_time <= 480
                      /\ p < Len(stops) => stops[p].departure_time <= 480
                      /\ \A u \in {stops[p].location_index} :
                            (u # args.depot /\ u + 1 <= Len(args.tw)) =>
                                /\ args.tw[u + 1][1] <= stops[p].arrival_time
                                /\ stops[p].arrival_time <= args.tw[u + 1][2]

\* A route of two windowed customers with service times, the second reached
\* only after waiting.
C26_Witness ==
    /\ Succeeded
    /\ args.has_tw
    /\ \E v \in DOMAIN result.routes :
          \E stops \in {result.routes[v].stops} :
             /\ Len(stops) = 4
             /\ args.service[stops[2].location_index + 1] > 0
             /\ stops[3].arrival_time >
                   stops[2].arrival_time
                   + TravelAndService(args, stops[2].location_index, stops[3].location_index)

\* C27 (optimize never raises): every call of optimize() that was entered
\* ends with a result; a failure while building the model, solving or
\* extracting (a division by a capacity of 0, say) is the result
\* {success: false, error: message} and carries no routes and no summary.
C27_NeverRaises ==
    (Done /\ outcome # "Rejected") =>
        /\ result # NoResult
        /\ "success" \in DOMAIN result
        /\ ~result.success =>
              /\ DOMAIN result = {"success", "error"}
              /\ result.error \in {"No solution found", "division by zero", "CP Solver fail"}

\* SolveWithParameters returned an assignment and the extraction raised on
\* the route of the second vehicle, whose capacity is 0.
C27_Witness ==
    /\ Failed
    /\ result.error = "division by zero"
    /\ args.caps[1] # 0
    /\ args.caps[2] = 0
    /\ solve_calls = 1
    /\ outcome \in {"TimedOut", "Converged"}

\* This step is the return of connect() with the value ret ("True", "False")
\* or its end in an exception ("raised").
ConnectReturns(ret) ==
    /\ connect_call' # connect_call
    /\ connect_call'.pc = "idle"
    /\ connect_call'.returned = ret

\* In the call of the frame c some psycopg2.connect returned a connection.
Established(c) == c.attempts_made > c.attempts_failed

\* C22 (what connect() returns): connect() returns True exactly when a
\* production connection was established in that call, and then
\* is_fallback_mode is false and the breaker is CLOSED with failure_count 0;
\* it returns False only with fallback mode activated; with enable_fallback
\* false a failed connect() raises and never returns False, whatever
\* retry_attempts >= 0 is.
C22_ConnectReturn ==
    [][ /\ ConnectReturns("True") =>
              /\ Established(connect_call')
              /\ database'.conn = "connection"
              /\ ~database'.is_fallback_mode
              /\ circuit_breaker'.state = "CLOSED"
              /\ circuit_breaker'.failure_count = 0
        /\ Established(connect_call') => connect_call'.returned = "True"
        /\ ConnectReturns("False") => database'.is_fallback_mode
        /\ (~database.enable_fallback /\ connect_call' # connect_call
              /\ connect_call'.pc = "idle" /\ ~Established(connect_call')) =>
              connect_call'.returned = "raised"
      ]_vars

\* The breaker is OPEN and less than reset_timeout has passed since the
\* last failure.
OpenAndWaiting ==
    /\ circuit_breaker.state = "OPEN"
    /\ clock - circuit_breaker.last_failure_time < reset_timeout

\* This step is a round of the retry loop: psycopg2.connect is called.
ConnectionAttempt ==
    /\ connect_call.pc = "loop"
    /\ connect_call'.attempts_made = connect_call.attempts_made + 1

\* This step is the wrapper calling the wrapped function.
WrappedFunctionCalled ==
    /\ wrapper_call.pc = "idle"
    /\ wrapper_call'.pc = "running"

\* This step is the end of the wrapped function: "returned" or "raised".
WrappedFunctionEnds(how) ==
    /\ wrapper_call.pc = "running"
    /\ wrapper_call'.pc = "idle"
    /\ wrapper_call'.outcome = how

\* C28 (the open breaker blocks attempts): while the breaker is OPEN and
\* less than reset_timeout has passed since the last failure, no connection
\* attempt is made, neither by connect() (whatever retry_attempts is, and
\* also when the breaker opens in the middle of the retry loop) nor by
\* calling the wrapped function.
C28_OpenBlocksAttempts ==
    [][ OpenAndWaiting =>
            /\ ~ConnectionAttempt
            /\ ~WrappedFunctionCalled
      ]_vars

\* The breaker's fields agree with its state.
BreakerStateOK ==
    /\ circuit_breaker.state \in {"CLOSED", "OPEN", "HALF_OPEN"}
    /\ circuit_breaker.state = "CLOSED" =>
          circuit_breaker.failure_count < failure_threshold
    /\ circuit_breaker.state = "OPEN" =>
          /\ circuit_breaker.failure_count >= failure_threshold
          /\ circuit_breaker.last_failure_time # NoValue

\* This step is a call that went through: a connection from psycopg2.connect
\* or the return of the wrapped function.
SuccessStep ==
    \/ /\ ConnectionAttempt
       /\ connect_call'.attempts_failed = connect_call.attempts_failed
    \/ WrappedFunctionEnds("returned")

\* This step is a call that failed: psycopg2.connect or the wrapped function
\* raised.
FailureStep ==
    \/ /\ ConnectionAttempt
       /\ connect_call'.attempts_failed = connect_call.attempts_failed + 1
    \/ WrappedFunctionEnds("raised")

\* C29 (breaker state invariant): the state is CLOSED, OPEN or HALF_OPEN;
\* CLOSED implies failure_count < failure_threshold; OPEN implies
\* failure_count >= failure_threshold and last_failure_time set; a success
\* sets failure_count to 0 and the state to CLOSED; HALF_OPEN is entered only
\* from OPEN once reset_timeout has passed since the last failure; a failure
\* in HALF_OPEN puts the breaker back to OPEN.
C29_BreakerInvariant ==
    /\ []BreakerStateOK
    /\ [][ /\ SuccessStep =>
                 /\ circuit_breaker'.failure_count = 0
                 /\ circuit_breaker'.state = "CLOSED"
           /\ (circuit_breaker'.state = "HALF_OPEN" /\ circuit_breaker.state # "HALF_OPEN") =>
                 /\ circuit_breaker.state = "OPEN"
                 /\ clock - circuit_breaker.last_failure_time >= reset_timeout
           /\ (circuit_breaker.state = "HALF_OPEN" /\ FailureStep) =>
                 circuit_breaker'.state = "OPEN"
         ]_vars

\* What a call of connect() has done so far fits its arguments: no more
\* attempts than retry_attempts, none after a success, one failure recorded
\* in the breaker for every failed attempt, the sleeps base_delay * 2^k, one
\* after every failed attempt but the last.
RetryFrameOK ==
    \A c \in {connect_call} :
        /\ c.attempts_made <= c.retry_attempts
        /\ c.attempts_made - c.attempts_failed \in {0, 1}
        /\ Established(c) => c.pc = "idle"
        /\ c.failures_recorded = c.attempts_failed
        /\ \A k \in 0..(Len(c.sleeps) - 1) : c.sleeps[k + 1] = c.base_delay * (2 ^ k)
        /\ c.pc = "loop" => Len(c.sleeps) = c.attempts_failed
        /\ (c.pc = "idle" /\ c.attempts_made > 0) =>
              Len(c.sleeps) = (IF Established(c) THEN c.attempts_failed
                               ELSE c.retry_attempts - 1)
        /\ (c.pc = "idle" /\ c.attempts_made > 0 /\ ~Established(c)) =>
              c.attempts_failed = c.retry_attempts

\* C30 (retry with exponential backoff): one call of connect() makes at
\* most retry_attempts attempts and stops at the first success; after the
\* failed attempt number k (from 0) it sleeps base_delay * 2^k before the
\* next attempt, and it does not sleep after the last attempt; every failed
\* attempt records exactly one failure in the breaker; so a call with 3
\* attempts (threshold 3) in which every attempt fails leaves the breaker
\* OPEN.
C30_RetryBackoff ==
    /\ []RetryFrameOK
    /\ [][ /\ ConnectionAttempt =>
                 /\ connect_call'.attempts_failed - connect_call.attempts_failed \in {0, 1}
                 /\ connect_call'.attempts_failed = connect_call.attempts_failed + 1 =>
                       circuit_breaker'.failure_count = circuit_breaker.failure_count + 1
                 /\ connect_call'.attempts_failed = connect_call.attempts_failed =>
                       circuit_breaker'.failure_count = 0
                 /\ clock' - clock =
                       (IF Len(connect_call'.sleeps) > Len(connect_call.sleeps)
                        THEN connect_call.base_delay * (2 ^ connect_call.attempt)
                        ELSE 0)
           /\ (connect_call' # connect_call /\ ~ConnectionAttempt) =>
                 circuit_breaker'.failure_count = circuit_breaker.failure_count
           /\ (ConnectionAttempt /\ connect_call'.pc = "idle"
                 /\ connect_call'.retry_attempts = 3
                 /\ connect_call'.attempts_failed = 3) =>
                 circuit_breaker'.state = "OPEN"
         ]_vars

====
